---- MODULE Spec2Model ----
(***************************************************************************)
(* A model of the adviser gateway (github.com/dzeckelev/adviser).          *)
(*                                                                         *)
(* The cached server (src/unnamed/part_000) answers a request from an LRU  *)
(* cache or starts a goroutine (server.handler) that fetches from the      *)
(* target service, transforms, stores and writes the response, while       *)
(* server.handlerFunc waits in a select for the goroutine's signal or for  *)
(* the request context's deadline.  The uncached server (src/adviser.go)   *)
(* does fetch, transform and write inside handlerFunc.                     *)
(***************************************************************************)
EXTENDS Integers, Sequences, FiniteSets, TLC

(***************************************************************************)
(* Bounds of the model.                                                    *)
(***************************************************************************)
NumReq == 2        \* requests (connections) the server handles
MaxLen == 2        \* longest inputResp the uncached server is given
MaxCacheSize == 2  \* largest configured CacheSize
MaxClock == 5      \* cache accesses of the cache specification

Reqs == 1..NumReq
Urls == {"/a", "/b"}
Keys == Urls \cup {"/c"}

(***************************************************************************)
(* time.Duration: a signed 64-bit count of nanoseconds.  TLC's integers    *)
(* are 32 bits wide, so a Duration is kept as sign and magnitude, the      *)
(* magnitude in four little-endian limbs of base 10^6.                     *)
(***************************************************************************)
\* time.Millisecond, in nanoseconds
Millisecond == 1000000

\* The limb base is the factor the code multiplies by.
Base == Millisecond

LimbsOf(n) == << n % Base, n \div Base, 0, 0 >>

TwoTo63 == << 775808, 36854, 223372, 9 >>
TwoTo64 == << 551616, 73709, 446744, 18 >>

LimbGeq(a, b) ==
    \/ a[4] > b[4]
    \/ a[4] = b[4] /\ a[3] > b[3]
    \/ a[4] = b[4] /\ a[3] = b[3] /\ a[2] > b[2]
    \/ a[4] = b[4] /\ a[3] = b[3] /\ a[2] = b[2] /\ a[1] >= b[1]

\* a - b for a >= b, limb by limb with borrow.
LimbSub(a, b) ==
    LET b1 == IF a[1] < b[1] THEN 1 ELSE 0
        b2 == IF a[2] - b1 < b[2] THEN 1 ELSE 0
        b3 == IF a[3] - b2 < b[3] THEN 1 ELSE 0
    IN  << a[1] - b[1] + b1 * Base,
           a[2] - b1 - b[2] + b2 * Base,
           a[3] - b2 - b[3] + b3 * Base,
           a[4] - b3 - b[4] >>

RECURSIVE Mod64(_)
Mod64(m) == IF LimbGeq(m, TwoTo64) THEN Mod64(LimbSub(m, TwoTo64)) ELSE m

\* The int64 a Go multiplication leaves: the product modulo 2^64, read as
\* two's complement.
Wrap64(m) ==
    LET u == Mod64(m)
    IN  IF LimbGeq(u, TwoTo63)
        THEN [neg |-> TRUE, mag |-> LimbSub(TwoTo64, u)]
        ELSE [neg |-> FALSE, mag |-> u]

\* time.Duration(n) of a uint64 n that TLC can hold (n < 2^31).
Duration(n) == [neg |-> FALSE, mag |-> LimbsOf(n)]

\* d * time.Millisecond for a non-negative d whose top limb is 0: a
\* multiplication by the base is a shift of the limbs.
MulMillisecond(d) == Wrap64(<< 0, d.mag[1], d.mag[2], d.mag[3] >>)

Positive(d) == ~d.neg /\ d.mag # << 0, 0, 0, 0 >>

(***************************************************************************)
(* Data: inputResp, outputResp, their JSON form, the fixed error body.     *)
(***************************************************************************)
StatusOK == 200
StatusInternalServerError == 500
StatusGatewayTimeout == 504

Codes == {"", "MOW", "DME"}
Names == {"", "Moscow"}
CountryNames == {"", "Russia"}
CountryCodes == {"RU"}

\* inputItem: the three fields the code reads and one it does not.
InputItems ==
    [Code : Codes, Name : Names, CountryName : CountryNames,
     CountryCode : CountryCodes]

InputsUpTo(n) == UNION { [1..k -> InputItems] : k \in 0..n }

Moscow ==
    [Code |-> "MOW", Name |-> "Moscow", CountryName |-> "Russia",
     CountryCode |-> "RU"]

Domodedovo ==
    [Code |-> "DME", Name |-> "", CountryName |-> "Russia",
     CountryCode |-> "RU"]

\* What the target service answers to the cached server in this model.
TargetInputs == { << Moscow >>, << Moscow, Domodedovo >> }

\* internalErr
internalErr == << "{", "error", "internal error", "}" >>

\* The loop of server.handler / handlerFunc that makes the result.
transform_swapped(input) ==
    [k \in 1..Len(input) |->
        [Slug |-> input[k].Code,
         Subtitle |-> input[k].Name,
         Title |-> input[k].CountryName]]

transform(input) ==
    [k \in 1..Len(input) |->
        [Slug |-> input[k].Code,
         Subtitle |-> input[k].CountryName,
         Title |-> input[k].Name]]

\* json.Marshal of one outputItem and of an outputResp, as tokens.
MarshalItem(o) ==
    << "{", "slug", o.Slug, "subtitle", o.Subtitle, "title", o.Title, "}" >>

RECURSIVE MarshalItems(_)
MarshalItems(output) ==
    IF output = << >> THEN << >>
    ELSE MarshalItem(Head(output)) \o MarshalItems(Tail(output))

Marshal(output) == << "[" >> \o MarshalItems(output) \o << "]" >>

(***************************************************************************)
(* http.ResponseWriter.  status = 0: the header is not written yet.  A     *)
(* Write without header writes the header with 200; a WriteHeader after    *)
(* the header is written changes nothing.  body holds the chunks written   *)
(* while the handler runs, each with the function that wrote it; late      *)
(* holds the chunks written after handlerFunc returned, when the writer    *)
(* no longer belongs to the caller and what becomes of them is not         *)
(* defined.                                                                *)
(***************************************************************************)
NewWriter ==
    [status |-> 0, ctype |-> FALSE, body |-> << >>, late |-> << >>,
     finished |-> FALSE]

WriteHeader(rw, code) ==
    IF rw.finished \/ rw.status # 0 THEN rw
    ELSE [rw EXCEPT !.status = code]

Write(rw, by, data) ==
    IF rw.finished
    THEN [rw EXCEPT !.late = Append(@, [by |-> by, data |-> data])]
    ELSE [rw EXCEPT !.status = IF @ = 0 THEN StatusOK ELSE @,
                    !.body = Append(@, [by |-> by, data |-> data])]

\* server.addJSONContentType
addJSONContentType(rw) == [rw EXCEPT !.ctype = TRUE]

\* server.response: json.Marshal cannot fail on an outputResp.
response(rw, by, data) == Write(rw, by, Marshal(data))

(***************************************************************************)
(* lru.Cache (github.com/hashicorp/golang-lru): a sequence of entries,     *)
(* most recently used first.                                               *)
(***************************************************************************)
Contains(c, key) == \E i \in 1..Len(c) : c[i].key = key

ValueOf(c, key) == c[CHOOSE i \in 1..Len(c) : c[i].key = key].val

Without(c, key) == SelectSeq(c, LAMBDA e : e.key # key)

CacheKeys(c) == { c[i].key : i \in 1..Len(c) }

LruGet(c, key) ==
    IF Contains(c, key)
    THEN [found |-> TRUE, val |-> ValueOf(c, key),
          cache |-> << [key |-> key, val |-> ValueOf(c, key)] >>
                        \o Without(c, key)]
    ELSE [found |-> FALSE, val |-> << >>, cache |-> c]

LruAdd(c, size, key, val) ==
    IF Contains(c, key)
    THEN << [key |-> key, val |-> val] >> \o Without(c, key)
    ELSE LET n == << [key |-> key, val |-> val] >> \o c
         IN  IF Len(n) > size THEN SubSeq(n, 1, Len(n) - 1) ELSE n

\* The lookup of server.pullAndResponse: s.cache.Get(key).
pull_miss(c, key) == [found |-> FALSE, val |-> << >>, cache |-> c]

pull_peek(c, key) == [LruGet(c, key) EXCEPT !.cache = c]

pull(c, key) == LruGet(c, key)

\* server.push as it would be were a key already cached left as it is.
push_keep(c, size, url, data) ==
    IF Contains(c, url) THEN LruGet(c, url).cache
    ELSE LruAdd(c, size, url, data)

\* server.push: s.cache.Add(url, data).
push(c, size, url, data) == LruAdd(c, size, url, data)

(***************************************************************************)
(* server.request.  A reply is what the target service does with one GET:  *)
(* the transport fails, or it answers a status other than 200 (here 503),  *)
(* or 200 with a body that is no JSON, or 200 with an inputResp.           *)
(***************************************************************************)
FailedReplies ==
    { [transport |-> TRUE, status |-> 0, wellFormed |-> FALSE,
       items |-> << >>],
      [transport |-> FALSE, status |-> 503,
       wellFormed |-> TRUE, items |-> << >>],
      [transport |-> FALSE, status |-> StatusOK, wellFormed |-> FALSE,
       items |-> << >>] }

Replies(inputs) ==
    FailedReplies \cup
    { [transport |-> FALSE, status |-> StatusOK, wellFormed |-> TRUE,
       items |-> i] : i \in inputs }

\* server.request as it would be were the GET sent without the context.
request_unbound(ctxDone, reply) ==
    IF reply.transport THEN [err |-> TRUE, result |-> << >>]
    ELSE IF reply.status # StatusOK THEN [err |-> TRUE, result |-> << >>]
    ELSE IF ~reply.wellFormed THEN [err |-> TRUE, result |-> << >>]
    ELSE [err |-> FALSE, result |-> reply.items]

\* ctxDone: the request's context is done when client.Do runs or while it
\* waits, and client.Do returns the context's error.
request(ctxDone, reply) ==
    IF ctxDone \/ reply.transport THEN [err |-> TRUE, result |-> << >>]
    ELSE IF reply.status # StatusOK THEN [err |-> TRUE, result |-> << >>]
    ELSE IF ~reply.wellFormed THEN [err |-> TRUE, result |-> << >>]
    ELSE [err |-> FALSE, result |-> reply.items]

(***************************************************************************)
(* State.                                                                  *)
(*   cfg         the configuration read at start                            *)
(*   reqTimeout  server.reqTimeout                                         *)
(*   cache       server.cache                                              *)
(*   orch[r]     handlerFunc of request r: where it is (pc), its url, the  *)
(*               duration it gave context.WithTimeout, and the state of    *)
(*               the request                                               *)
(*   ctxDone[r]  ctx.Done() of request r is closed                         *)
(*   work[r]     the goroutine server.handler of request r                 *)
(*   done[r]     the channel done of request r: "nil" before make, "open", *)
(*               "received" by handlerFunc, or "dropped" by the default    *)
(*               case of the sender                                        *)
(*   w[r]        the http.ResponseWriter of request r                      *)
(*   v1          the single connection of the uncached server (adviser.go) *)
(*   asks[r]     the path and query connection r asks for                  *)
(*   target      the replies the target service can give                   *)
(*   stamp, clock, lastOp   the time of the last access of each key, the   *)
(*               count of accesses, and the last cache operation           *)
(*   lastPut[k]  the data of the last server.push of key k made on the     *)
(*               cache alone                                               *)
(***************************************************************************)
VARIABLES cfg, reqTimeout, cache, orch, ctxDone, work, done, w, v1,
          asks, target, stamp, clock, lastOp, lastPut

vars == << cfg, reqTimeout, cache, orch, ctxDone, work, done, w, v1,
           asks, target, stamp, clock, lastOp, lastPut >>

\* What the actions of the servers leave alone: the environment and the
\* record of cache accesses.
env == << asks, target, stamp, clock, lastOp, lastPut >>

\* newConfig: RequestTimeout: 3000
DefaultRequestTimeout == 3000

\* Values of RequestTimeout: zero, the default, the largest whose deadline
\* fits an int64 after both multiplications and the one after it.
RequestTimeouts == {0, DefaultRequestTimeout, 9223372, 9223373}

\* newServer: reqTimeout: time.Duration(cfg.RequestTimeout) * time.Millisecond
newServer_reqTimeout(c) == MulMillisecond(Duration(c.RequestTimeout))

\* handlerFunc: time.Duration(s.reqTimeout)*time.Millisecond
handlerFunc_timeout(d) == MulMillisecond(d)

NoOp == [op |-> "none", key |-> "", found |-> FALSE, before |-> << >>,
         stampBefore |-> [k \in Keys |-> 0]]

NoPut == [put |-> FALSE, data |-> << >>]

InitRequests ==
    /\ orch = [r \in Reqs |->
                 [pc |-> "idle", url |-> "", timeout |-> Duration(0),
                  state |-> "none"]]
    /\ ctxDone = [r \in Reqs |-> FALSE]
    /\ work = [r \in Reqs |->
                 [pc |-> "none", err |-> FALSE, input |-> << >>,
                  output |-> << >>, calls |-> 0]]
    /\ done = [r \in Reqs |-> "nil"]
    /\ w = [r \in Reqs |-> NewWriter]
    /\ v1 = [pc |-> "idle", err |-> FALSE, input |-> << >>,
             output |-> << >>, rw |-> NewWriter]
    /\ stamp = [k \in Keys |-> 0]
    /\ clock = 0
    /\ lastOp = NoOp
    /\ lastPut = [k \in Keys |-> NoPut]

\* main: the configuration, lru.New(cfg.CacheSize) (which refuses a size
\* below 1) and newServer.
Init ==
    /\ cfg \in [RequestTimeout : {DefaultRequestTimeout},
                CacheSize : 1..MaxCacheSize]
    /\ reqTimeout = newServer_reqTimeout(cfg)
    /\ cache = << >>
    /\ InitRequests
    /\ asks \in [Reqs -> Urls]
    /\ target = Replies(TargetInputs)

(***************************************************************************)
(* server.handlerFunc (cached server).  Connections are numbered in the    *)
(* order the server accepts them.                                          *)
(***************************************************************************)
Accepts(r) ==
    /\ orch[r].pc = "idle"
    /\ \A q \in Reqs : q < r => orch[q].pc # "idle"

\* context.WithTimeout with a duration that is not positive returns a
\* context that is done already.
WithTimeout(d) == ~Positive(d)

\* Lines 248-274: the context, the header, the cache hit.
handlerFunc_CacheHit(r, u) ==
    LET t == handlerFunc_timeout(reqTimeout)
        got == pull(cache, u)
    IN  /\ Accepts(r)
        /\ got.found
        /\ cache' = got.cache
        /\ w' = [w EXCEPT ![r] =
                    response(addJSONContentType(@), "pullAndResponse",
                             got.val)]
        /\ orch' = [orch EXCEPT ![r] =
                       [pc |-> "return", url |-> u, timeout |-> t,
                        state |-> "CacheHit"]]
        /\ ctxDone' = [ctxDone EXCEPT ![r] = WithTimeout(t)]
        /\ UNCHANGED << env, cfg, reqTimeout, work, done, v1 >>

\* Lines 248-277: the context, the header, the cache miss, make(chan) and
\* go s.handler.
handlerFunc_CacheMiss(r, u) ==
    LET t == handlerFunc_timeout(reqTimeout)
        got == pull(cache, u)
    IN  /\ Accepts(r)
        /\ ~got.found
        /\ cache' = got.cache
        /\ w' = [w EXCEPT ![r] = addJSONContentType(@)]
        /\ orch' = [orch EXCEPT ![r] =
                       [pc |-> "spawned", url |-> u, timeout |-> t,
                        state |-> "Fetching"]]
        /\ ctxDone' = [ctxDone EXCEPT ![r] = WithTimeout(t)]
        /\ done' = [done EXCEPT ![r] = "open"]
        /\ work' = [work EXCEPT ![r].pc = "request"]
        /\ UNCHANGED << env, cfg, reqTimeout, v1 >>

\* Line 279: handlerFunc reaches the select and waits on both channels.
handlerFunc_Select(r) ==
    /\ orch[r].pc = "spawned"
    /\ orch' = [orch EXCEPT ![r].pc = "select"]
    /\ UNCHANGED << env, cfg, reqTimeout, cache, ctxDone, work, done, w, v1 >>

\* Lines 280-281: case <-ctx.Done(), w.WriteHeader(504).
handlerFunc_CtxDone(r) ==
    /\ orch[r].pc = "select"
    /\ ctxDone[r]
    /\ w' = [w EXCEPT ![r] = WriteHeader(@, StatusGatewayTimeout)]
    /\ orch' = [orch EXCEPT ![r].pc = "timeout", ![r].state = "TimedOut"]
    /\ UNCHANGED << env, cfg, reqTimeout, cache, ctxDone, work, done, v1 >>

\* Line 282: w.Write(internalErr).
handlerFunc_WriteTimeout(r) ==
    /\ orch[r].pc = "timeout"
    /\ w' = [w EXCEPT ![r] = Write(@, "handlerFunc", internalErr)]
    /\ orch' = [orch EXCEPT ![r].pc = "return"]
    /\ UNCHANGED << env, cfg, reqTimeout, cache, ctxDone, work, done, v1 >>

\* handlerFunc returns: the deferred cancel() closes ctx.Done(), and the
\* http server finishes the response (a header of 200 when none was
\* written) and takes the writer back.
handlerFunc_Return(r) ==
    /\ orch[r].pc = "return"
    /\ orch' = [orch EXCEPT ![r].pc = "returned"]
    /\ ctxDone' = [ctxDone EXCEPT ![r] = TRUE]
    /\ w' = [w EXCEPT ![r].finished = TRUE,
                      ![r].status = IF @ = 0 THEN StatusOK ELSE @]
    /\ UNCHANGED << env, cfg, reqTimeout, cache, work, done, v1 >>

\* The timer of context.WithTimeout: the deadline elapses.
Timer_disarmed(r) ==
    /\ FALSE
    /\ UNCHANGED << env, cfg, reqTimeout, cache, orch, ctxDone, work, done, w,
                    v1 >>

Timer(r) ==
    /\ orch[r].pc # "idle"
    /\ ~ctxDone[r]
    /\ ctxDone' = [ctxDone EXCEPT ![r] = TRUE]
    /\ UNCHANGED << env, cfg, reqTimeout, cache, orch, work, done, w, v1 >>

(***************************************************************************)
(* server.handler, the goroutine of a cache miss.                          *)
(***************************************************************************)
\* The goroutine as it would be were a failed call made again.
handler_Request_retry(r, reply) ==
    LET res == request(ctxDone[r], reply)
    IN  /\ work[r].pc = "request"
        /\ work[r].calls < 2
        /\ work' = [work EXCEPT
                       ![r].pc = IF res.err /\ work[r].calls = 0
                                 THEN "request"
                                 ELSE IF res.err THEN "failed" ELSE "fetched",
                       ![r].err = res.err,
                       ![r].input = res.result,
                       ![r].calls = @ + 1]
        /\ UNCHANGED << env, cfg, reqTimeout, cache, orch, ctxDone, done, w, v1 >>

\* Lines 187-192: s.request returns.
handler_Request(r, reply) ==
    LET res == request(ctxDone[r], reply)
    IN  /\ work[r].pc = "request"
        /\ work' = [work EXCEPT
                       ![r].pc = IF res.err THEN "failed" ELSE "fetched",
                       ![r].err = res.err,
                       ![r].input = res.result,
                       ![r].calls = @ + 1]
        /\ UNCHANGED << env, cfg, reqTimeout, cache, orch, ctxDone, done, w, v1 >>

\* The goroutine as it would be were a failed fetch cached as an empty
\* result.
handler_WriteErr_cached(r) ==
    /\ work[r].pc = "failed"
    /\ w' = [w EXCEPT ![r] = Write(@, "handler", internalErr)]
    /\ cache' = push(cache, cfg.CacheSize, orch[r].url, transform(<< >>))
    /\ work' = [work EXCEPT ![r].pc = "signal"]
    /\ UNCHANGED << env, cfg, reqTimeout, orch, ctxDone, done, v1 >>

\* Line 190: w.Write(internalErr), no WriteHeader before it.
handler_WriteErr(r) ==
    /\ work[r].pc = "failed"
    /\ w' = [w EXCEPT ![r] = Write(@, "handler", internalErr)]
    /\ work' = [work EXCEPT ![r].pc = "signal"]
    /\ UNCHANGED << env, cfg, reqTimeout, cache, orch, ctxDone, done, v1 >>

\* The goroutine as it would be were the push left for after the response.
handler_Push_deferred(r) ==
    LET output == transform(work[r].input)
    IN  /\ work[r].pc = "fetched"
        /\ work' = [work EXCEPT ![r].pc = "pushed", ![r].output = output]
        /\ UNCHANGED << env, cfg, reqTimeout, cache, orch, ctxDone, done, w,
                        v1 >>

\* The goroutine as it would be were the push given up once the request
\* has timed out.
handler_Push_cancelled(r) ==
    LET output == transform(work[r].input)
    IN  /\ work[r].pc = "fetched"
        /\ cache' = IF orch[r].state = "TimedOut" THEN cache
                    ELSE push(cache, cfg.CacheSize, orch[r].url, output)
        /\ work' = [work EXCEPT ![r].pc = "pushed", ![r].output = output]
        /\ UNCHANGED << env, cfg, reqTimeout, orch, ctxDone, done, w, v1 >>

\* Lines 196-209: the result is made and pushed to the cache.
handler_Push(r) ==
    LET output == transform(work[r].input)
    IN  /\ work[r].pc = "fetched"
        /\ cache' = push(cache, cfg.CacheSize, orch[r].url, output)
        /\ work' = [work EXCEPT ![r].pc = "pushed", ![r].output = output]
        /\ UNCHANGED << env, cfg, reqTimeout, orch, ctxDone, done, w, v1 >>

\* Line 210: s.response(logger, w, output).
handler_Response(r) ==
    /\ work[r].pc = "pushed"
    /\ w' = [w EXCEPT ![r] = response(@, "handler", work[r].output)]
    /\ work' = [work EXCEPT ![r].pc = "signal"]
    /\ UNCHANGED << env, cfg, reqTimeout, cache, orch, ctxDone, done, v1 >>

\* A send on the unbuffered channel done succeeds only when handlerFunc is
\* parked in its select and no other case of that select has fired.
Receivable(r) == orch[r].pc = "select" /\ ~ctxDone[r]

\* The goroutine as it would be with a plain send, done <- struct{}{}.
handler_Signal_blocking(r) ==
    /\ work[r].pc = "signal"
    /\ Receivable(r)
    /\ work' = [work EXCEPT ![r].pc = "exit"]
    /\ done' = [done EXCEPT ![r] = "received"]
    /\ orch' = [orch EXCEPT ![r].pc = "return", ![r].state = "Completed"]
    /\ UNCHANGED << env, cfg, reqTimeout, cache, ctxDone, w, v1 >>

\* Lines 179-184: the deferred select { case done <- struct{}{}: default: }.
handler_Signal(r) ==
    /\ work[r].pc = "signal"
    /\ work' = [work EXCEPT ![r].pc = "exit"]
    /\ IF Receivable(r)
       THEN /\ done' = [done EXCEPT ![r] = "received"]
            /\ orch' = [orch EXCEPT ![r].pc = "return",
                                    ![r].state = "Completed"]
       ELSE /\ done' = [done EXCEPT ![r] = "dropped"]
            /\ UNCHANGED orch
    /\ UNCHANGED << env, cfg, reqTimeout, cache, ctxDone, w, v1 >>

Next ==
    \/ \E r \in Reqs : handlerFunc_CacheHit(r, asks[r])
    \/ \E r \in Reqs : handlerFunc_CacheMiss(r, asks[r])
    \/ \E r \in Reqs : handlerFunc_Select(r)
    \/ \E r \in Reqs : handlerFunc_CtxDone(r)
    \/ \E r \in Reqs : handlerFunc_WriteTimeout(r)
    \/ \E r \in Reqs : handlerFunc_Return(r)
    \/ \E r \in Reqs : Timer(r)
    \/ \E r \in Reqs, reply \in target :
          handler_Request(r, reply)
    \/ \E r \in Reqs : handler_WriteErr(r)
    \/ \E r \in Reqs : handler_Push(r)
    \/ \E r \in Reqs : handler_Response(r)
    \/ \E r \in Reqs : handler_Signal(r)

Spec == Init /\ [][Next]_vars

(***************************************************************************)
(* The server under newConfig's defaults, every connection asking for the  *)
(* same path and query of a target service that answers every GET it is    *)
(* left the time to answer; a fetch fails when the deadline elapses first. *)
(***************************************************************************)
\* newConfig: CacheSize: 1000
DefaultCacheSize == 1000

newConfig ==
    [RequestTimeout |-> DefaultRequestTimeout, CacheSize |-> DefaultCacheSize]

Found(i) ==
    [transport |-> FALSE, status |-> StatusOK, wellFormed |-> TRUE,
     items |-> i]

InitSameKey ==
    /\ cfg = newConfig
    /\ reqTimeout = newServer_reqTimeout(cfg)
    /\ cache = << >>
    /\ InitRequests
    /\ asks = [r \in Reqs |-> "/a"]
    /\ target = { Found(i) : i \in TargetInputs }

SameKeySpec == InitSameKey /\ [][Next]_vars

\* The same server under each of the values of RequestTimeout.
InitConfig ==
    /\ cfg \in [RequestTimeout : RequestTimeouts, CacheSize : {DefaultCacheSize}]
    /\ reqTimeout = newServer_reqTimeout(cfg)
    /\ cache = << >>
    /\ InitRequests
    /\ asks = [r \in Reqs |-> "/a"]
    /\ target = Replies(TargetInputs)

ConfigSpec == InitConfig /\ [][Next]_vars

InitFair ==
    /\ cfg = newConfig
    /\ reqTimeout = newServer_reqTimeout(cfg)
    /\ cache = << >>
    /\ InitRequests
    /\ asks = [r \in Reqs |-> "/a"]
    /\ target = { Found(<< Moscow >>) }

\* The steps of an accepted request's handlerFunc and of its goroutine.
OrchestratorStep(r) ==
    \/ handlerFunc_Select(r)
    \/ handlerFunc_CtxDone(r)
    \/ handlerFunc_WriteTimeout(r)
    \/ handlerFunc_Return(r)

WorkerStep(r) ==
    \/ \E reply \in target : handler_Request(r, reply)
    \/ handler_WriteErr(r)
    \/ handler_Push(r)
    \/ handler_Response(r)
    \/ handler_Signal(r)

\* The Go scheduler runs every runnable goroutine, the timer of a context
\* fires, and the reply of the target service or the error of the
\* transport arrives.
Fairness ==
    \A r \in Reqs :
        /\ WF_vars(OrchestratorStep(r))
        /\ WF_vars(WorkerStep(r))
        /\ WF_vars(Timer(r))

FairSpec == InitFair /\ [][Next]_vars /\ Fairness

(***************************************************************************)
(* The server with a cache of one entry.  The second connection asks for   *)
(* either path, the others for "/a", and the target service answers a GET  *)
(* with 503 or with the inputResp of Moscow.                               *)
(***************************************************************************)
Unavailable ==
    [transport |-> FALSE, status |-> 503, wellFormed |-> TRUE,
     items |-> << >>]

InitSmallCache ==
    /\ cfg = [RequestTimeout |-> DefaultRequestTimeout, CacheSize |-> 1]
    /\ reqTimeout = newServer_reqTimeout(cfg)
    /\ cache = << >>
    /\ InitRequests
    /\ asks \in { f \in [Reqs -> Urls] : \A r \in Reqs : r # 2 => f[r] = "/a" }
    /\ target = { Unavailable, Found(<< Moscow >>) }

SmallCacheSpec == InitSmallCache /\ [][Next]_vars

(***************************************************************************)
(* The cache alone: pullAndResponse and push called with any keys, with    *)
(* the time of each key's last access recorded beside the cache.           *)
(***************************************************************************)
Outputs == { transform(i) : i \in TargetInputs }

Touch(key, op, found) ==
    /\ clock' = IF found \/ op = "push" THEN clock + 1 ELSE clock
    /\ stamp' = IF found \/ op = "push"
                THEN [stamp EXCEPT ![key] = clock + 1] ELSE stamp
    /\ lastOp' = [op |-> op, key |-> key, found |-> found,
                  before |-> cache, stampBefore |-> stamp]

\* server.pullAndResponse(key, w), on the connection v1.
cache_pullAndResponse(key) ==
    LET got == pull(cache, key)
    IN  /\ clock < MaxClock
        /\ cache' = got.cache
        /\ v1' = [v1 EXCEPT !.rw =
                     IF got.found
                     THEN response(NewWriter, "pullAndResponse", got.val)
                     ELSE NewWriter]
        /\ Touch(key, "get", got.found)
        /\ UNCHANGED << cfg, reqTimeout, orch, ctxDone, work, done, w, asks,
                        target, lastPut >>

\* server.push(url, data).
cache_push(url, data) ==
    /\ clock < MaxClock
    /\ cache' = push(cache, cfg.CacheSize, url, data)
    /\ Touch(url, "push", Contains(cache, url))
    /\ lastPut' = [lastPut EXCEPT ![url] = [put |-> TRUE, data |-> data]]
    /\ UNCHANGED << cfg, reqTimeout, orch, ctxDone, work, done, w, v1, asks,
                    target >>

InitCache ==
    /\ cfg \in [RequestTimeout : {DefaultRequestTimeout},
                CacheSize : 1..MaxCacheSize]
    /\ reqTimeout = newServer_reqTimeout(cfg)
    /\ cache = << >>
    /\ InitRequests
    /\ asks = [r \in Reqs |-> "/a"]
    /\ target = { }

NextCache ==
    \/ \E key \in Keys : cache_pullAndResponse(key)
    \/ \E url \in Keys, data \in Outputs : cache_push(url, data)

CacheSpec == InitCache /\ [][NextCache]_vars

(***************************************************************************)
(* The uncached server (src/adviser.go): handlerFunc fetches, transforms   *)
(* and writes by itself.  v1 is the connection it served last.             *)
(***************************************************************************)
\* Lines 171-226.  expired: the deadline of the context made in
\* server.request has elapsed before the reply is there.
adviser_handlerFunc(reply, expired) ==
    LET res == request(expired, reply)
        rw0 == addJSONContentType(NewWriter)
        output == transform(res.result)
    IN  /\ v1.pc = "idle"
        /\ v1' = IF res.err
                 THEN [pc |-> "done", err |-> TRUE, input |-> << >>,
                       output |-> << >>,
                       rw |-> [Write(WriteHeader(rw0,
                                         StatusInternalServerError),
                                     "handlerFunc", internalErr)
                               EXCEPT !.finished = TRUE]]
                 ELSE [pc |-> "done", err |-> FALSE, input |-> res.result,
                       output |-> output,
                       rw |-> [response(rw0, "handlerFunc", output)
                               EXCEPT !.finished = TRUE]]
        /\ UNCHANGED << cfg, reqTimeout, cache, orch, ctxDone, work, done, w,
                        env >>

\* The server accepts the next connection.
adviser_Accept ==
    /\ v1.pc = "done"
    /\ v1' = [pc |-> "idle", err |-> FALSE, input |-> << >>,
             output |-> << >>, rw |-> NewWriter]
    /\ UNCHANGED << cfg, reqTimeout, cache, orch, ctxDone, work, done, w,
                    env >>

InitAdviser ==
    /\ cfg = newConfig
    /\ reqTimeout = newServer_reqTimeout(cfg)
    /\ cache = << >>
    /\ InitRequests
    /\ asks = [r \in Reqs |-> "/a"]
    /\ target = Replies(InputsUpTo(MaxLen))

NextAdviser ==
    \/ \E reply \in target, expired \in BOOLEAN :
          adviser_handlerFunc(reply, expired)
    \/ adviser_Accept

AdviserSpec == InitAdviser /\ [][NextAdviser]_vars

(***************************************************************************)
(* What the client of connection r is sent.                                *)
(***************************************************************************)
RECURSIVE Bytes(_)
Bytes(chunks) ==
    IF chunks = << >> THEN << >>
    ELSE Head(chunks).data \o Bytes(Tail(chunks))

Returned(r) == orch[r].pc = "returned"

Answered(r) == Returned(r) /\ Len(w[r].body) >= 1

(***************************************************************************)
(* C1: every request gets exactly one response write: at no time more      *)
(* than one chunk is written to its connection, and when handlerFunc has   *)
(* returned exactly one is.                                                *)
(***************************************************************************)
C1_ExactlyOneWrite ==
    \A r \in Reqs :
        /\ Len(w[r].body) <= 1
        /\ Returned(r) => Len(w[r].body) = 1

(***************************************************************************)
(* C2: when handlerFunc takes the ctx.Done() case (the deadline elapsed    *)
(* before the signal was received) and has written its response, the       *)
(* client has status 504 and exactly the body internalErr.                 *)
(***************************************************************************)
C2_TimeoutResponse ==
    \A r \in Reqs :
        (orch[r].state = "TimedOut" /\ orch[r].pc \in {"return", "returned"})
            => /\ w[r].status = StatusGatewayTimeout
               /\ Bytes(w[r].body) = internalErr

(***************************************************************************)
(* C3: when the fetch of a cache miss fails and the request completes      *)
(* before the deadline, the client has status 500 and the body             *)
(* internalErr.                                                            *)
(***************************************************************************)
C3_FetchFailureIs500 ==
    \A r \in Reqs :
        (work[r].err /\ orch[r].state = "Completed")
            => /\ w[r].status = StatusInternalServerError
               /\ Bytes(w[r].body) = internalErr

(***************************************************************************)
(* C4: a request that arrives for a key the cache holds is answered with   *)
(* status 200 and the serialized value the cache holds for the key, a      *)
(* value some handler goroutine made from a successful fetch for that key  *)
(* and pushed; it starts no goroutine and makes no upstream call, then or  *)
(* later.                                                                  *)
(***************************************************************************)
Pushed(q, key, val) ==
    /\ orch[q].url = key
    /\ work[q].pc \in {"pushed", "signal", "exit"}
    /\ ~work[q].err
    /\ work[q].calls = 1
    /\ work[q].output = val

C4_HitServesStored ==
    [][\A r \in Reqs :
          /\ (orch[r].pc = "idle" /\ orch'[r].pc # "idle"
                /\ Contains(cache, asks[r]))
                => /\ orch'[r].state = "CacheHit"
                   /\ \E q \in Reqs :
                         Pushed(q, asks[r], ValueOf(cache, asks[r]))
                   /\ w'[r].status = StatusOK
                   /\ w'[r].body =
                         << [by |-> "pullAndResponse",
                             data |-> Marshal(ValueOf(cache, asks[r]))] >>
                   /\ Contains(cache', asks[r])
                   /\ ValueOf(cache', asks[r]) = ValueOf(cache, asks[r])
          /\ orch'[r].state = "CacheHit"
                => /\ work'[r].pc = "none"
                   /\ work'[r].calls = 0
                   /\ done'[r] = "nil"
                   /\ Len(w'[r].body) = 1
      ]_vars

C4_Witness ==
    \E r, q \in Reqs :
        /\ orch[r].state = "CacheHit"
        /\ Returned(r)
        /\ q # r
        /\ Pushed(q, asks[r], << [Slug |-> "MOW", Subtitle |-> "Russia",
                                  Title |-> "Moscow"] >>)
        /\ Bytes(w[r].body) =
              << "[", "{", "slug", "MOW", "subtitle", "Russia", "title",
                 "Moscow", "}", "]" >>

(***************************************************************************)
(* C5: once handlerFunc has written the timeout response of a request,     *)
(* the handler goroutine of that request writes nothing to the request's   *)
(* connection: no chunk of handler follows a chunk of handlerFunc.         *)
(***************************************************************************)
C5_NoWorkerWriteAfterTimeout ==
    \A r \in Reqs :
        \A i, j \in 1..Len(w[r].body) :
            (i < j /\ w[r].body[i].by = "handlerFunc")
                => w[r].body[j].by # "handler"

(***************************************************************************)
(* C6: every request the server has accepted is eventually answered:       *)
(* handlerFunc returns with a response written.  Accepted and answered     *)
(* requests stay so, hence from some time on every accepted request is     *)
(* answered.                                                               *)
(***************************************************************************)
C6_EveryRequestAnswered ==
    <>[](\A r \in Reqs : orch[r].pc # "idle" => Answered(r))

C6_Witness ==
    /\ \A r \in Reqs : Answered(r) /\ orch[r].state # "CacheHit"
    /\ \E r \in Reqs : orch[r].state = "TimedOut" /\ done[r] = "dropped"
    /\ \E r \in Reqs : orch[r].state = "Completed"

(***************************************************************************)
(* C7: the cache never holds more than CacheSize entries nor a key twice;  *)
(* its entries are in the order of their last access, the latest first; a  *)
(* push of a new key into a full cache leaves the key in the cache and     *)
(* removes exactly the key whose last access is the oldest; a hit of       *)
(* pullAndResponse and a push leave their key the most recently used.      *)
(***************************************************************************)
Oldest(c, st) ==
    CHOOSE k \in CacheKeys(c) : \A k2 \in CacheKeys(c) : st[k] <= st[k2]

FullBefore ==
    /\ lastOp.op = "push"
    /\ ~lastOp.found
    /\ Len(lastOp.before) = cfg.CacheSize

C7_LRU ==
    /\ Len(cache) <= cfg.CacheSize
    /\ Cardinality(CacheKeys(cache)) = Len(cache)
    /\ \A i, j \in 1..Len(cache) :
          i < j => stamp[cache[i].key] > stamp[cache[j].key]
    /\ FullBefore =>
          CacheKeys(cache) =
              (CacheKeys(lastOp.before)
                  \ { Oldest(lastOp.before, lastOp.stampBefore) })
              \cup { lastOp.key }
    /\ (lastOp.op = "push" \/ (lastOp.op = "get" /\ lastOp.found)) =>
          /\ Len(cache) >= 1
          /\ cache[1].key = lastOp.key
          /\ \A k \in CacheKeys(cache) : stamp[k] <= stamp[lastOp.key]

\* A full cache of two keys whose older key was hit, and then a push of a
\* third key that removed the other one.
C7_Witness ==
    /\ FullBefore
    /\ cfg.CacheSize = 2
    /\ lastOp.key = "/c"
    /\ lastOp.before[2].key = "/b"
    /\ lastOp.stampBefore["/a"] > lastOp.stampBefore["/b"]
    /\ lastOp.stampBefore["/b"] > 1
    /\ CacheKeys(cache) = {"/a", "/c"}

(***************************************************************************)
(* C8: the duration handlerFunc gives context.WithTimeout is               *)
(* cfg.RequestTimeout milliseconds, that is RequestTimeout * 10^6 ns.      *)
(***************************************************************************)
Milliseconds(n) ==
    [neg |-> FALSE, mag |-> << 0, n % 1000000, n \div 1000000, 0 >>]

C8_DeadlineIsRequestTimeout ==
    \A r \in Reqs :
        orch[r].pc # "idle" => orch[r].timeout = Milliseconds(cfg.RequestTimeout)

(***************************************************************************)
(* C9: the result made from an inputResp has its length, and its k-th      *)
(* item has the k-th input item's code as slug, country_name as subtitle   *)
(* and name as title.                                                      *)
(***************************************************************************)
C9_Transform ==
    (v1.pc = "done" /\ ~v1.err) =>
        /\ Len(v1.output) = Len(v1.input)
        /\ \A k \in 1..Len(v1.input) :
              /\ v1.output[k].Slug = v1.input[k].Code
              /\ v1.output[k].Subtitle = v1.input[k].CountryName
              /\ v1.output[k].Title = v1.input[k].Name
              /\ DOMAIN v1.output[k] = {"Slug", "Subtitle", "Title"}
        /\ v1.rw.body = << [by |-> "handlerFunc", data |-> Marshal(v1.output)] >>

C9_Witness ==
    /\ v1.pc = "done"
    /\ ~v1.err
    /\ Len(v1.input) = MaxLen
    /\ v1.input[1] = [Code |-> "", Name |-> "", CountryName |-> "",
                      CountryCode |-> "RU"]
    /\ v1.input[MaxLen] = Moscow
    /\ v1.output[1] = [Slug |-> "", Subtitle |-> "", Title |-> ""]
    /\ v1.output[MaxLen] =
          [Slug |-> "MOW", Subtitle |-> "Russia", Title |-> "Moscow"]

(***************************************************************************)
(* C10: a completion signal the handler goroutine attempts while the       *)
(* deadline has not elapsed is received by handlerFunc.                    *)
(***************************************************************************)
C10_SignalNeverLost ==
    [][\A r \in Reqs :
          (work[r].pc = "signal" /\ work'[r].pc = "exit" /\ ~ctxDone[r])
              => (done'[r] = "received" /\ orch'[r].state = "Completed")
      ]_vars

(***************************************************************************)
(* C11 as written: the deadline firing does not change the outcome of the  *)
(* worker's upstream call.  Under SameKeySpec the target service answers   *)
(* every GET with an inputResp, so no call of any worker returns an error. *)
(***************************************************************************)
C11_DeadlineLeavesFetchAlone == \A r \in Reqs : ~work[r].err

(***************************************************************************)
(* C11, amended: the TimedOut transition itself touches neither the worker *)
(* nor the cache, but the worker's call runs under the request's context:  *)
(* a call that returns once the context is done returns an error, and a    *)
(* worker whose call failed puts nothing in the cache.  A worker whose     *)
(* call had returned an inputResp puts its transformed result in the       *)
(* cache whatever the state of the request, TimedOut included.             *)
(***************************************************************************)
C11_DeadlineCancelsFetchInFlight ==
    [][\A r \in Reqs :
         /\ (orch[r].state # "TimedOut" /\ orch'[r].state = "TimedOut")
               => (work' = work /\ cache' = cache /\ ctxDone' = ctxDone)
         /\ (work[r].pc = "request" /\ work'[r].pc # "request" /\ ctxDone[r])
               => (work'[r].err /\ work'[r].pc = "failed" /\ cache' = cache)
         /\ (work[r].err /\ work'[r] # work[r]) => cache' = cache
         /\ (work[r].pc = "fetched" /\ work'[r].pc # "fetched")
               => /\ Contains(cache', orch[r].url)
                  /\ ValueOf(cache', orch[r].url) = transform(work[r].input)
      ]_vars

\* Two requests have timed out: the call of one had returned an inputResp
\* and its result is in the cache, the call of the other was cut by the
\* deadline.
C11_Witness ==
    \E r, q \in Reqs :
        /\ orch[r].state = "TimedOut" /\ orch[q].state = "TimedOut"
        /\ ~work[r].err /\ work[r].pc \in {"pushed", "signal", "exit"}
        /\ Contains(cache, orch[r].url)
        /\ ValueOf(cache, orch[r].url) = work[r].output
        /\ work[q].err /\ work[q].calls = 1 /\ work[q].pc = "exit"

\* The inputResps the target service returns with status 200.
Fetchable == { t.items : t \in { t \in target : ~request(FALSE, t).err } }

\* Worker q has put its result in the cache.
HasPut(q) == ~work[q].err /\ work[q].pc \in {"pushed", "signal", "exit"}

(***************************************************************************)
(* C12: every entry (K, V) of the cache has V = transform(I) for an        *)
(* inputResp I that the target service returned with success to a worker   *)
(* fetching K; a worker whose fetch failed, by the deadline or otherwise,  *)
(* holds no input and no output, and no step of it changes the cache.      *)
(***************************************************************************)
C12_CacheHoldsTransformedFetches ==
    /\ [](\A i \in 1..Len(cache) :
             \E q \in Reqs :
                 /\ HasPut(q)
                 /\ orch[q].url = cache[i].key
                 /\ work[q].input \in Fetchable
                 /\ cache[i].val = transform(work[q].input))
    /\ [](\A r \in Reqs :
             work[r].err => /\ work[r].pc \in {"failed", "signal", "exit"}
                            /\ work[r].input = << >>
                            /\ work[r].output = << >>)
    /\ [][\A r \in Reqs :
             ((work[r].err \/ work'[r].err) /\ work'[r] # work[r])
                 => cache' = cache]_vars

\* A fetch of "/b" has failed and nothing is cached for "/b", while the
\* cache holds the result of a fetch of "/a" that succeeded.
C12_Witness ==
    \E r, q \in Reqs :
        /\ orch[r].url = "/b" /\ work[r].err /\ work[r].pc = "exit"
        /\ ~Contains(cache, "/b")
        /\ orch[q].url = "/a" /\ HasPut(q)
        /\ Contains(cache, "/a")
        /\ ValueOf(cache, "/a") = transform(<< Moscow >>)

(***************************************************************************)
(* C13: the worker's signal step never blocks.  A worker at its signal     *)
(* can always take the step, whatever handlerFunc is doing; the step ends  *)
(* the worker, the signal being received when handlerFunc is parked in     *)
(* its select and dropped otherwise; and every worker started ends.        *)
(***************************************************************************)
C13_SignalNeverBlocks ==
    /\ [](\A r \in Reqs : work[r].pc = "signal" => ENABLED handler_Signal(r))
    /\ [][\A r \in Reqs :
             (work[r].pc = "signal" /\ work'[r] # work[r])
                 => /\ work'[r].pc = "exit"
                    /\ done'[r] = IF Receivable(r) THEN "received"
                                  ELSE "dropped"]_vars
    /\ <>[](\A r \in Reqs : work[r].pc \in {"none", "exit"})

\* A worker has ended although handlerFunc had timed out and returned
\* before the worker wrote: nobody was left to receive its signal.
C13_Witness ==
    \E r \in Reqs :
        /\ work[r].pc = "exit" /\ done[r] = "dropped"
        /\ orch[r].pc = "returned" /\ orch[r].state = "TimedOut"
        /\ Len(w[r].late) = 1

(***************************************************************************)
(* C14: the GET of a worker is bound to the deadline of its request.  A    *)
(* call in flight when the context is done is not held back, and whatever  *)
(* the target service answers it returns an error to the worker, which     *)
(* gets no input and goes to its failure branch.                           *)
(***************************************************************************)
C14_FetchBoundToDeadline ==
    /\ [](\A r \in Reqs :
             (work[r].pc = "request" /\ ctxDone[r])
                 => \A reply \in target : ENABLED handler_Request(r, reply))
    /\ [][\A r \in Reqs :
             (work[r].pc = "request" /\ work'[r].pc # "request" /\ ctxDone[r])
                 => /\ work'[r].err
                    /\ work'[r].pc = "failed"
                    /\ work'[r].input = << >>
                    /\ work'[r].calls = 1]_vars

\* handlerFunc still waits in its select, the deadline has elapsed, and
\* the call of its worker has returned an error although the target
\* service answers every GET.
C14_Witness ==
    \E r \in Reqs :
        /\ orch[r].pc = "select" /\ ctxDone[r]
        /\ work[r].pc = "failed" /\ work[r].err /\ work[r].calls = 1
        /\ \A reply \in target : ~request(FALSE, reply).err

\* The upstream calls made for request r: those that have returned and the
\* one in flight.
Issued(r) == work[r].calls + (IF work[r].pc = "request" THEN 1 ELSE 0)

(***************************************************************************)
(* C15: every request causes at most one upstream call: none before it is  *)
(* accepted and none on a cache hit, exactly one on a miss, whether the    *)
(* call succeeds, fails or is cut by the deadline; so the calls made are   *)
(* never more than the requests accepted.                                  *)
(***************************************************************************)
C15_AtMostOneUpstreamCall ==
    /\ \A r \in Reqs :
          /\ Issued(r) <= 1
          /\ orch[r].state \in {"none", "CacheHit"} => Issued(r) = 0
          /\ orch[r].state \in {"Fetching", "TimedOut", "Completed"}
                => Issued(r) = 1
          /\ work[r].pc \in {"failed", "fetched", "pushed", "signal", "exit"}
                => work[r].calls = 1
    /\ Cardinality({ r \in Reqs : Issued(r) > 0 })
          <= Cardinality({ r \in Reqs : orch[r].pc # "idle" })

\* Two requests have been served to the end, each with one call: the fetch
\* of one failed and was not made again, the fetch of the other succeeded.
C15_Witness ==
    \E r, q \in Reqs :
        /\ orch[r].pc = "returned" /\ work[r].pc = "exit" /\ work[r].err
        /\ work[r].calls = 1
        /\ orch[q].pc = "returned" /\ work[q].pc = "exit" /\ HasPut(q)
        /\ work[q].calls = 1

(***************************************************************************)
(* C16: each push of a key overwrites what the cache held for it.  After   *)
(* any sequence of pushes and lookups, a key that is cached has exactly    *)
(* one entry, and its value is the data of the last push made for it.      *)
(***************************************************************************)
C16_LastPutWins ==
    \A k \in Keys :
        Contains(cache, k)
            => /\ Cardinality({ i \in 1..Len(cache) : cache[i].key = k }) = 1
               /\ lastPut[k].put
               /\ ValueOf(cache, k) = lastPut[k].data

\* A key that was cached with one value has just been pushed again with
\* another, and the cache holds the new value.
C16_Witness ==
    /\ lastOp.op = "push" /\ lastOp.found
    /\ ValueOf(lastOp.before, lastOp.key) # lastPut[lastOp.key].data
    /\ Contains(cache, lastOp.key)
    /\ ValueOf(cache, lastOp.key) = lastPut[lastOp.key].data

\* What the worker of request r has written, before and after handlerFunc
\* returned.
HandlerWrites(r) == SelectSeq(w[r].body \o w[r].late, LAMBDA c : c.by = "handler")

(***************************************************************************)
(* C17: the worker fetches, transforms, puts, writes, signals, in this     *)
(* order.  The put is the step that follows the fetch, and it writes and   *)
(* signals nothing; the one write of a worker is made after the put (or    *)
(* after the failure) and before the signal; the signal is the last step.  *)
(* So whenever the worker of a miss has written a success body the value   *)
(* for its key is in the cache (newConfig's cache evicts nothing here),   *)
(* and a signal is attempted only by a worker that has written.            *)
(***************************************************************************)
C17_WorkerOrder ==
    /\ [](\A r \in Reqs :
             /\ Len(HandlerWrites(r)) =
                   (IF work[r].pc \in {"signal", "exit"} THEN 1 ELSE 0)
             /\ done[r] \in {"received", "dropped"} <=> work[r].pc = "exit"
             /\ (Len(HandlerWrites(r)) = 1 /\ ~work[r].err)
                   => /\ HandlerWrites(r)[1].data = Marshal(work[r].output)
                      /\ work[r].output = transform(work[r].input)
                      /\ Contains(cache, orch[r].url))
    /\ [][\A r \in Reqs :
             /\ (work[r].pc # "pushed" /\ work'[r].pc = "pushed")
                   => /\ work[r].pc = "fetched"
                      /\ Contains(cache', orch[r].url)
                      /\ ValueOf(cache', orch[r].url) = work'[r].output
                      /\ w' = w /\ done' = done
             /\ (work[r].pc # "signal" /\ work'[r].pc = "signal")
                   => /\ work[r].pc = IF work[r].err THEN "failed" ELSE "pushed"
                      /\ cache' = cache /\ done'[r] = "open"
             /\ (work[r].pc # "exit" /\ work'[r].pc = "exit")
                   => /\ work[r].pc = "signal"
                      /\ cache' = cache /\ w' = w]_vars

\* A worker has written its success body and signalled, and the value it
\* put is in the cache.
C17_Witness ==
    \E r \in Reqs :
        /\ work[r].pc = "exit" /\ ~work[r].err
        /\ done[r] = "received"
        /\ w[r].body = << [by |-> "handler", data |-> Marshal(work[r].output)] >>
        /\ Contains(cache, orch[r].url)

====
